---- MODULE Spec2Model ----
(***************************************************************************)
(* The review site of project9-reviews/server.js: an Express application   *)
(* with cookie sessions (express-session, MemoryStore), CSRF protection    *)
(* (csurf with cookie: true) and two mongoose models, User and Review.     *)
(*                                                                         *)
(* Node runs one turn of the event loop without interruption.  The         *)
(* middleware chain and a handler up to its first await are one action.    *)
(* An awaited store call is two more: the store carries the call out       *)
(* (reading or changing the collection at that moment), and later the      *)
(* handler resumes with the answer and runs to its next await or to its    *)
(* response.  comparePassword reads no collection: its answer and the      *)
(* resumption are one action.  The session store is the MemoryStore of     *)
(* express-session: destroy removes the session in the turn it is called   *)
(* in and calls back, without an error, in a later one.  Between any two   *)
(* actions of a request other requests, of other browsers or of the same   *)
(* one, may run.                                                           *)
(*                                                                         *)
(* models/User.js and models/Review.js are not part of the sources at      *)
(* hand.  What they do is taken from the design document: unique username  *)
(* and email, an irreversibly hashed password, an integer rating in [1,5], *)
(* rating and comment required, a creation timestamp.                      *)
(***************************************************************************)
EXTENDS Integers, Sequences, FiniteSets, TLC

VARIABLES
    users,      \* the User collection: a set of user documents
    reviews,    \* the Review collection: a set of review documents
    sessions,   \* per client, the user of the session its connect.sid names
    csrf,       \* per client, the secret in its _csrf cookie (0: no cookie)
    pending,    \* the requests suspended at an await or a callback
    last,       \* the response sent last, and the client it went to
    now         \* Date.now()

vars == <<users, reviews, sessions, csrf, pending, last, now>>

(***************************************************************************)
(* Bounds of the model.                                                    *)
(***************************************************************************)
MaxReviews == 2
MaxClock == 1
MaxRequests == 2

Clients == {"c1", "c2"}
(* The places of the requests suspended together.  The program suspends    *)
(* any number of requests; the model MaxRequests at most.                  *)
Requests == 1..MaxRequests

(* A form field left empty arrives as "" (express.urlencoded).             *)
Usernames == {"", "ann", "bob"}
Emails == {"", "a@x.com", "b@x.com"}
Passwords == {"", "pw1", "pw2"}
Filled(fields) == fields \ {""}

(* Strings whose characters the code inspects are sequences of characters, *)
(* over blanks, decimal and hexadecimal digits, "x", "z", "+", "-" and ".". *)
CommentInputs == {<<>>, <<" ">>, <<"a">>, <<" ", "a", " ">>}
RatingInputs ==
    {<<>>, <<" ">>, <<"0">>, <<"1">>, <<"5">>, <<"6">>, <<"x">>,
     <<" ", "5">>, <<" ", "6">>, <<"-", "1">>, <<"1", ".", "5">>,
     <<"1", "e", "1">>, <<"0", "x", "6">>}
IdParams == {<<"1">>, <<"2">>, <<"z">>, <<"2", "3">>}

(***************************************************************************)
(* Responses.  The texts server.js sends are Korean; each is given here by *)
(* what it says, one string per distinct text of the source.               *)
(***************************************************************************)
ErrAllFields == "fill in all fields"                    \* lines 76, 110, 149
ErrPasswordMismatch == "passwords do not match"         \* line 80
ErrUserExists == "user already exists"                  \* line 86
ErrSignupFailed == "error during signup"                \* line 96
ErrInvalidCredentials == "email or password incorrect"  \* lines 116, 121
ErrLoginFailed == "error during login"                  \* line 128
ErrRatingRange == "rating must be between 1 and 5"      \* line 153
ErrReviewFailed == "error while writing the review"     \* line 166
MsgFeedFailed == "error loading the review list"        \* line 62
MsgReviewNotFound == "review not found"                 \* line 177
MsgDetailFailed == "error loading the review detail"    \* line 182

NoResponse == [client |-> "none", route |-> "none", kind |-> "none", to |-> "none", msg |-> "none", list |-> <<>>]
Render(route, view, error) ==
    [client |-> "none", route |-> route, kind |-> "render", to |-> view, msg |-> error, list |-> <<>>]
RenderList(route, view, list) ==
    [client |-> "none", route |-> route, kind |-> "render", to |-> view, msg |-> "none", list |-> list]
Redirect(route, path) ==
    [client |-> "none", route |-> route, kind |-> "redirect", to |-> path, msg |-> "none", list |-> <<>>]
Send(route, text) ==
    [client |-> "none", route |-> route, kind |-> "send", to |-> "none", msg |-> text, list |-> <<>>]
(* csurf calls next(err) with a 403 ForbiddenError; no route runs.         *)
Forbidden(route) ==
    [client |-> "none", route |-> route, kind |-> "error", to |-> "403", msg |-> "invalid csrf token", list |-> <<>>]

(***************************************************************************)
(* req.session.user                                                        *)
(***************************************************************************)
NoUser == [id |-> 0, username |-> "", email |-> ""]
(* a session identity with the email in the username's place *)
SessionUserEmailTwice(user) == [id |-> user.id, username |-> user.email, email |-> user.email]
SessionUser(user) == [id |-> user.id, username |-> user.username, email |-> user.email]

(***************************************************************************)
(* csurf({ cookie: true }): the secret lives in the client's _csrf cookie, *)
(* the token handed to the forms is derived from it, and a request whose   *)
(* method is not GET, HEAD or OPTIONS must carry a token of that secret.   *)
(* A request that comes without the cookie is given a new secret, which    *)
(* reaches the client with the response.                                   *)
(***************************************************************************)
NoToken == [salt |-> "", mac |-> 0]
csrfToken(secret) == [salt |-> "s", mac |-> secret]
(* The secrets are random; what the checks of csurf depend on is whether   *)
(* a token is of the secret the cookie holds, so the secrets a client is   *)
(* given are not told apart: a token of a secret its cookie held before,   *)
(* like a token of another client's, is a token that does not verify.      *)
NewSecret(c) == IF c = "c1" THEN 1 ELSE 2
Secret(c) == IF csrf[c] = 0 THEN NewSecret(c) ELSE csrf[c]
(* What a request of client c may carry in _csrf: nothing, the token of    *)
(* the secret in its cookie, or a token that is not of that secret (made   *)
(* up, of another client, or of a secret the cookie no longer holds).      *)
ForgedToken == csrfToken(0)
SubmittedTokens(c) ==
    {NoToken, ForgedToken} \cup (IF csrf[c] = 0 THEN {} ELSE {csrfToken(csrf[c])})
(* a csurf that only asks for some token *)
CsrfValidAnyToken(c, token) == token.salt # ""
CsrfValid(c, token) == token.salt # "" /\ token.mac = Secret(c)

(***************************************************************************)
(* models/User.js, from the design document: the password is stored as an  *)
(* irreversible hash, comparePassword verifies a candidate against it, and *)
(* the collection enforces unique usernames and unique emails on save.     *)
(***************************************************************************)
Hash(password) == <<"hash", password>>
comparePassword(user, password) == user.password = Hash(password)
NewUser(id, username, email, password) ==
    [id |-> id, username |-> username, email |-> email, password |-> Hash(password)]
DuplicateKey(user) ==
    \E u \in users : u.username = user.username \/ u.email = user.email

(* User.findOne({ $or: [{ email }, { username }] }) and User.findOne({ email }) *)
(* a lookup that forgets the username *)
FindByEmailOnly(email, username) == {u \in users : u.email = email}
FindByEmailOrUsername(email, username) ==
    {u \in users : u.email = email \/ u.username = username}
FindByEmail(email) == {u \in users : u.email = email}

(***************************************************************************)
(* Document identifiers.  new User(...) and new Review(...) draw an        *)
(* ObjectId no other document has; its string form is abstracted to one    *)
(* hexadecimal digit (24 in mongoose).                                     *)
(***************************************************************************)
UsedIds ==
    {u.id : u \in users} \cup {r.id : r \in reviews}
        \cup {pending[r].id : r \in Requests} \cup {0}
FreshId ==
    CHOOSE i \in 1..Cardinality(UsedIds) :
        i \notin UsedIds /\ \A j \in 1..(i - 1) : j \in UsedIds

HexDigits == <<"0", "1", "2", "3", "4", "5", "6", "7", "8", "9", "a", "b", "c", "d", "e", "f">>
IsHexDigit(ch) == \E i \in 1..Len(HexDigits) : HexDigits[i] = ch
HexValue(ch) == (CHOOSE i \in 1..Len(HexDigits) : HexDigits[i] = ch) - 1
(* The cast mongoose applies to the :id parameter before it queries.       *)
IsObjectIdString(param) == Len(param) = 1 /\ IsHexDigit(param[1])
CastObjectId(param) == HexValue(param[1])

(* String.prototype.trim, over the characters of the model.                *)
RECURSIVE TrimStart(_)
TrimStart(str) ==
    IF str # <<>> /\ str[1] = " " THEN TrimStart(Tail(str)) ELSE str
RECURSIVE TrimEnd(_)
TrimEnd(str) ==
    IF str # <<>> /\ str[Len(str)] = " "
    THEN TrimEnd(SubSeq(str, 1, Len(str) - 1)) ELSE str
(* a comment stored as submitted *)
Untrimmed(str) == str
Trim(str) == TrimEnd(TrimStart(str))

(***************************************************************************)
(* JavaScript's handling of the rating field: `rating < 1` and             *)
(* `rating > 5` convert the submitted string to a number (StringToNumber). *)
(* Surrounding blanks are dropped; the empty string is 0; a decimal        *)
(* literal is an optional sign, digits with an optional "." (digits on at  *)
(* least one side of it) and an optional exponent ("e", optional sign,     *)
(* digits); "0x" and "0b" start a hexadecimal and a binary literal, which  *)
(* take no sign; anything else is NaN, and every comparison with NaN is    *)
(* false.  A number is kept as mantissa m and exponent e, m * 10^e; the    *)
(* strings of the model are short, so that no double rounds.               *)
(***************************************************************************)
IsDigit(ch) == \E i \in 1..10 : HexDigits[i] = ch
AllDigits(str) == \A i \in DOMAIN str : IsDigit(str[i])
IsDigits(str) == str # <<>> /\ AllDigits(str)
IsHexLiteral(str) ==
    /\ Len(str) >= 3 /\ str[1] = "0" /\ str[2] = "x"
    /\ \A i \in 3..Len(str) : IsHexDigit(str[i])
IsBinaryLiteral(str) ==
    /\ Len(str) >= 3 /\ str[1] = "0" /\ str[2] = "b"
    /\ \A i \in 3..Len(str) : str[i] \in {"0", "1"}
(* the first place of ch in str, 0 if it has none *)
IndexOf(str, ch) ==
    IF \E i \in DOMAIN str : str[i] = ch
    THEN CHOOSE i \in DOMAIN str : str[i] = ch /\ \A j \in 1..(i - 1) : str[j] # ch
    ELSE 0
IsNegative(str) == str # <<>> /\ str[1] = "-"
Unsigned(str) == IF str # <<>> /\ str[1] \in {"+", "-"} THEN Tail(str) ELSE str
(* the parts of an unsigned decimal literal *)
MantissaOf(str) ==
    LET k == IndexOf(str, "e") IN IF k = 0 THEN str ELSE SubSeq(str, 1, k - 1)
ExponentOf(str) ==
    LET k == IndexOf(str, "e") IN IF k = 0 THEN <<"0">> ELSE SubSeq(str, k + 1, Len(str))
IntegerPart(str) ==
    LET k == IndexOf(str, ".") IN IF k = 0 THEN str ELSE SubSeq(str, 1, k - 1)
FractionPart(str) ==
    LET k == IndexOf(str, ".") IN IF k = 0 THEN <<>> ELSE SubSeq(str, k + 1, Len(str))
IsDecimalLiteral(str) ==
    LET mantissa == MantissaOf(Unsigned(str))
    IN  /\ AllDigits(IntegerPart(mantissa)) /\ AllDigits(FractionPart(mantissa))
        /\ IntegerPart(mantissa) \o FractionPart(mantissa) # <<>>
        /\ IsDigits(Unsigned(ExponentOf(Unsigned(str))))
RECURSIVE BaseValue(_, _)
BaseValue(str, base) ==
    IF str = <<>> THEN 0
    ELSE base * BaseValue(SubSeq(str, 1, Len(str) - 1), base) + HexValue(str[Len(str)])
Signed(str, n) == IF IsNegative(str) THEN 0 - n ELSE n
(* 10^n, and 1 for a negative n *)
RECURSIVE Pow10(_)
Pow10(n) == IF n <= 0 THEN 1 ELSE 10 * Pow10(n - 1)
IsNumeric(str) ==
    LET s == Trim(str)
    IN  s = <<>> \/ IsHexLiteral(s) \/ IsBinaryLiteral(s) \/ IsDecimalLiteral(s)
ToNumber(str) ==
    LET s == Trim(str)
        mantissa == MantissaOf(Unsigned(s))
        exponent == ExponentOf(Unsigned(s))
    IN  IF s = <<>> THEN [m |-> 0, e |-> 0]
        ELSE IF IsHexLiteral(s) THEN [m |-> BaseValue(SubSeq(s, 3, Len(s)), 16), e |-> 0]
        ELSE IF IsBinaryLiteral(s) THEN [m |-> BaseValue(SubSeq(s, 3, Len(s)), 2), e |-> 0]
        ELSE [m |-> Signed(s, BaseValue(IntegerPart(mantissa) \o FractionPart(mantissa), 10)),
              e |-> Signed(exponent, BaseValue(Unsigned(exponent), 10))
                      - Len(FractionPart(mantissa))]
(* m * 10^e against the integer n, both scaled to integers *)
LessThan(str, n) ==
    /\ IsNumeric(str)
    /\ LET number == ToNumber(str)
       IN  number.m * Pow10(number.e) < n * Pow10(0 - number.e)
GreaterThan(str, n) ==
    /\ IsNumeric(str)
    /\ LET number == ToNumber(str)
       IN  number.m * Pow10(number.e) > n * Pow10(0 - number.e)
IsInteger(number) == (number.m * Pow10(number.e)) % Pow10(0 - number.e) = 0
IntegerValue(number) == (number.m * Pow10(number.e)) \div Pow10(0 - number.e)

(***************************************************************************)
(* models/Review.js, from the design document: rating is a required        *)
(* integer in [1,5], comment a required (non-empty) string, user a         *)
(* reference, and createdAt the time the document was made.                *)
(***************************************************************************)
NewReview(id, user, rating, comment, createdAt) ==
    [id |-> id, user |-> user, rating |-> rating, comment |-> comment,
     createdAt |-> createdAt]
ReviewValidates(review) ==
    /\ review.rating # <<>>
    /\ IsNumeric(review.rating)
    /\ LET number == ToNumber(review.rating)
       IN  IsInteger(number) /\ IntegerValue(number) >= 1 /\ IntegerValue(number) <= 5
    /\ review.comment # <<>>
StoredReview(review) == [review EXCEPT !.rating = IntegerValue(ToNumber(review.rating))]

(* Review.find().sort({ createdAt: -1 }): every review, newest first; the  *)
(* order among reviews of equal createdAt is the store's to choose.        *)
Orderings(docs) ==
    {f \in [1..Cardinality(docs) -> docs] : \A i, j \in DOMAIN f : i # j => f[i] # f[j]}
(* sort({ createdAt: 1 }) *)
SortByCreatedAtAsc(docs) ==
    {f \in Orderings(docs) :
        \A i, j \in DOMAIN f : i < j => f[i].createdAt <= f[j].createdAt}
SortByCreatedAtDesc(docs) ==
    {f \in Orderings(docs) :
        \A i, j \in DOMAIN f : i < j => f[i].createdAt >= f[j].createdAt}
Ids(list) == [i \in DOMAIN list |-> list[i].id]

(***************************************************************************)
(* The initial state: empty collections, no cookies, nothing in flight.    *)
(***************************************************************************)
Idle ==
    [pc |-> "idle", client |-> "none", secret |-> 0, session |-> NoUser,
     username |-> "", email |-> "",
     password |-> "", id |-> 0, user |-> 0, rating |-> <<>>, comment |-> <<>>,
     createdAt |-> 0, param |-> <<>>, result |-> "none", list |-> <<>>]

Init ==
    /\ users = {}
    /\ reviews = {}
    /\ sessions = [c \in Clients |-> NoUser]
    /\ csrf = [c \in Clients |-> 0]
    /\ pending = [r \in Requests |-> Idle]
    /\ last = NoResponse
    /\ now = 0

(***************************************************************************)
(* The course of a request.  A handler that answers in the turn it was     *)
(* called in responds at once; the response carries the _csrf cookie if    *)
(* csurf made a secret.  A handler that awaits is suspended; what csurf    *)
(* put in the response's headers travels with it until it is sent.         *)
(***************************************************************************)
Suspended == Cardinality({r \in Requests : pending[r].pc # "idle"})
FreeRequest ==
    CHOOSE r \in Requests :
        pending[r].pc = "idle" /\ \A q \in Requests : q < r => pending[q].pc # "idle"
Responds(c, response) ==
    /\ last' = [response EXCEPT !.client = c]
    /\ csrf' = [csrf EXCEPT ![c] = Secret(c)]
    /\ UNCHANGED pending
Suspends(c, entry) ==
    /\ Suspended < MaxRequests
    /\ pending' = [pending EXCEPT ![FreeRequest] =
          [entry EXCEPT !.client = c,
                        !.secret = IF csrf[c] = 0 THEN NewSecret(c) ELSE 0]]
    /\ UNCHANGED <<last, csrf>>
Continues(r, entry) ==
    /\ pending' = [pending EXCEPT ![r] = entry]
    /\ UNCHANGED <<last, csrf>>
Completes(r, response) ==
    /\ last' = [response EXCEPT !.client = pending[r].client]
    /\ csrf' = [csrf EXCEPT ![pending[r].client] =
                  IF pending[r].secret # 0 THEN pending[r].secret ELSE @]
    /\ pending' = [pending EXCEPT ![r] = Idle]

(***************************************************************************)
(* GET /                                                                   *)
(***************************************************************************)
GetFeed(c) ==
    /\ Suspends(c, [Idle EXCEPT !.pc = "feed_find"])
    /\ UNCHANGED <<users, reviews, sessions, now>>

(* The store runs the query.                                               *)
FeedFind(r, fail) ==
    /\ pending[r].pc = "feed_find"
    /\ IF fail
       THEN Continues(r, [pending[r] EXCEPT !.pc = "feed_found", !.result = "err"])
       ELSE \E list \in SortByCreatedAtDesc(reviews) :
                Continues(r, [pending[r] EXCEPT !.pc = "feed_found", !.result = "ok",
                                                !.list = Ids(list)])
    /\ UNCHANGED <<users, reviews, sessions, now>>

(* The handler resumes with the answer.                                    *)
FeedRender(r) ==
    /\ pending[r].pc = "feed_found"
    /\ IF pending[r].result = "err"
       THEN Completes(r, Send("GET /", MsgFeedFailed))
       ELSE Completes(r, RenderList("GET /", "index", pending[r].list))
    /\ UNCHANGED <<users, reviews, sessions, now>>

(***************************************************************************)
(* GET /signup, GET /login                                                 *)
(***************************************************************************)
GetSignup(c) ==
    /\ Responds(c, Render("GET /signup", "signup", "none"))
    /\ UNCHANGED <<users, reviews, sessions, now>>

GetLogin(c) ==
    /\ Responds(c, Render("GET /login", "login", "none"))
    /\ UNCHANGED <<users, reviews, sessions, now>>

(***************************************************************************)
(* POST /signup, up to `await User.findOne(...)`                           *)
(***************************************************************************)
PostSignup(c, username, email, password, confirmPassword, token) ==
    /\ IF ~CsrfValid(c, token)
       THEN Responds(c, Forbidden("POST /signup"))
       ELSE IF username = "" \/ email = "" \/ password = "" \/ confirmPassword = ""
       THEN Responds(c, Render("POST /signup", "signup", ErrAllFields))
       ELSE IF password # confirmPassword
       THEN Responds(c, Render("POST /signup", "signup", ErrPasswordMismatch))
       ELSE Suspends(c, [Idle EXCEPT !.pc = "signup_findOne", !.username = username,
                                     !.email = email, !.password = password])
    /\ UNCHANGED <<users, reviews, sessions, now>>

(* The store runs the lookup.                                              *)
SignupFindOne(r, fail) ==
    /\ pending[r].pc = "signup_findOne"
    /\ Continues(r, [pending[r] EXCEPT
          !.pc = "signup_found",
          !.result = IF fail THEN "err"
                     ELSE IF FindByEmailOrUsername(pending[r].email, pending[r].username) # {}
                     THEN "found" ELSE "none"])
    /\ UNCHANGED <<users, reviews, sessions, now>>

(* The handler resumes: it rejects a taken name, or builds the user and    *)
(* calls save.                                                             *)
SignupFound(r) ==
    /\ pending[r].pc = "signup_found"
    /\ IF pending[r].result = "err"
       THEN Completes(r, Render("POST /signup", "signup", ErrSignupFailed))
       ELSE IF pending[r].result = "found"
       THEN Completes(r, Render("POST /signup", "signup", ErrUserExists))
       ELSE Continues(r, [pending[r] EXCEPT !.pc = "signup_save", !.id = FreshId])
    /\ UNCHANGED <<users, reviews, sessions, now>>

(* The store runs the save: the collection refuses a duplicate key (or     *)
(* fails), else the user is stored.                                        *)
SignupSave(r, fail) ==
    LET user == NewUser(pending[r].id, pending[r].username, pending[r].email,
                        pending[r].password)
    IN  /\ pending[r].pc = "signup_save"
        /\ IF fail \/ DuplicateKey(user)
           THEN /\ Continues(r, [pending[r] EXCEPT !.pc = "signup_saved", !.result = "err"])
                /\ UNCHANGED users
           ELSE /\ users' = users \cup {user}
                /\ Continues(r, [pending[r] EXCEPT !.pc = "signup_saved", !.result = "ok"])
        /\ UNCHANGED <<reviews, sessions, now>>

(* a handler that takes every answer of save for a success *)
SignupSavedUnchecked(r) ==
    LET user == NewUser(pending[r].id, pending[r].username, pending[r].email,
                        pending[r].password)
    IN  /\ pending[r].pc = "signup_saved"
        /\ sessions' = [sessions EXCEPT ![pending[r].client] = SessionUser(user)]
        /\ Completes(r, Redirect("POST /signup", "/"))
        /\ UNCHANGED <<users, reviews, now>>

(* The handler resumes: the session gets the user's identity and the       *)
(* client is sent to /, or the catch renders the form.                     *)
SignupSaved(r) ==
    LET user == NewUser(pending[r].id, pending[r].username, pending[r].email,
                        pending[r].password)
    IN  /\ pending[r].pc = "signup_saved"
        /\ IF pending[r].result = "err"
           THEN /\ Completes(r, Render("POST /signup", "signup", ErrSignupFailed))
                /\ UNCHANGED sessions
           ELSE /\ sessions' = [sessions EXCEPT ![pending[r].client] = SessionUser(user)]
                /\ Completes(r, Redirect("POST /signup", "/"))
        /\ UNCHANGED <<users, reviews, now>>

(***************************************************************************)
(* POST /login, up to `await User.findOne({ email })`                      *)
(***************************************************************************)
PostLogin(c, email, password, token) ==
    /\ IF ~CsrfValid(c, token)
       THEN Responds(c, Forbidden("POST /login"))
       ELSE IF email = "" \/ password = ""
       THEN Responds(c, Render("POST /login", "login", ErrAllFields))
       ELSE Suspends(c, [Idle EXCEPT !.pc = "login_findOne", !.email = email,
                                     !.password = password,
                                     !.session = sessions[c]])
    /\ UNCHANGED <<users, reviews, sessions, now>>

(* The store runs the lookup.                                              *)
LoginFindOne(r, fail) ==
    LET found == FindByEmail(pending[r].email)
    IN  /\ pending[r].pc = "login_findOne"
        /\ IF fail
           THEN Continues(r, [pending[r] EXCEPT !.pc = "login_found", !.result = "err"])
           ELSE IF found = {}
           THEN Continues(r, [pending[r] EXCEPT !.pc = "login_found", !.result = "none"])
           ELSE \E user \in found :
                    Continues(r, [pending[r] EXCEPT !.pc = "login_found",
                                                    !.result = "found", !.user = user.id])
        /\ UNCHANGED <<users, reviews, sessions, now>>

(* a handler that tells an unknown email from a wrong password *)
LoginFoundRevealing(r) ==
    /\ pending[r].pc = "login_found"
    /\ IF pending[r].result = "err"
       THEN Completes(r, Render("POST /login", "login", ErrLoginFailed))
       ELSE IF pending[r].result = "none"
       THEN Completes(r, Render("POST /login", "login", "no account with this email"))
       ELSE Continues(r, [pending[r] EXCEPT !.pc = "login_compare"])
    /\ UNCHANGED <<users, reviews, sessions, now>>

(* The handler resumes: no such user, or it calls comparePassword.         *)
LoginFound(r) ==
    /\ pending[r].pc = "login_found"
    /\ IF pending[r].result = "err"
       THEN Completes(r, Render("POST /login", "login", ErrLoginFailed))
       ELSE IF pending[r].result = "none"
       THEN Completes(r, Render("POST /login", "login", ErrInvalidCredentials))
       ELSE Continues(r, [pending[r] EXCEPT !.pc = "login_compare"])
    /\ UNCHANGED <<users, reviews, sessions, now>>

(* comparePassword answers (or rejects) and the handler resumes.  With     *)
(* resave: false the session is written to the store (and its cookie sent) *)
(* when the response ends only if it differs from what the request loaded. *)
LoginCompare(r, fail) ==
    /\ pending[r].pc = "login_compare"
    /\ \E user \in {u \in users : u.id = pending[r].user} :
         IF fail
         THEN /\ Completes(r, Render("POST /login", "login", ErrLoginFailed))
              /\ UNCHANGED sessions
         ELSE IF ~comparePassword(user, pending[r].password)
         THEN /\ Completes(r, Render("POST /login", "login", ErrInvalidCredentials))
              /\ UNCHANGED sessions
         ELSE /\ sessions' = IF SessionUser(user) # pending[r].session
                             THEN [sessions EXCEPT ![pending[r].client] = SessionUser(user)]
                             ELSE sessions
              /\ Completes(r, Redirect("POST /login", "/"))
    /\ UNCHANGED <<users, reviews, now>>

(***************************************************************************)
(* GET /reviews/new                                                        *)
(***************************************************************************)
(* a compose page without the login check *)
GetReviewsNewOpen(c) ==
    /\ Responds(c, Render("GET /reviews/new", "new", "none"))
    /\ UNCHANGED <<users, reviews, sessions, now>>

GetReviewsNew(c) ==
    /\ IF sessions[c] = NoUser
       THEN Responds(c, Redirect("GET /reviews/new", "/login"))
       ELSE Responds(c, Render("GET /reviews/new", "new", "none"))
    /\ UNCHANGED <<users, reviews, sessions, now>>

(***************************************************************************)
(* POST /reviews/new, up to `await review.save()`                          *)
(***************************************************************************)
ReviewsUnderWay ==
    Cardinality(reviews) + Cardinality({r \in Requests : pending[r].pc = "review_save"})
PostReviewsNew(c, rating, comment, token) ==
    /\ IF ~CsrfValid(c, token)
       THEN Responds(c, Forbidden("POST /reviews/new"))
       ELSE IF sessions[c] = NoUser
       THEN Responds(c, Redirect("POST /reviews/new", "/login"))
       ELSE IF rating = <<>> \/ comment = <<>>
       THEN Responds(c, Render("POST /reviews/new", "new", ErrAllFields))
       ELSE IF LessThan(rating, 1) \/ GreaterThan(rating, 5)
       THEN Responds(c, Render("POST /reviews/new", "new", ErrRatingRange))
       ELSE /\ ReviewsUnderWay < MaxReviews
            /\ Suspends(c, [Idle EXCEPT !.pc = "review_save", !.id = FreshId,
                                        !.user = sessions[c].id, !.rating = rating,
                                        !.comment = Trim(comment), !.createdAt = now])
    /\ UNCHANGED <<users, reviews, sessions, now>>

(* The store runs the save: schema validation or the store may refuse.     *)
ReviewSave(r, fail) ==
    LET review == NewReview(pending[r].id, pending[r].user, pending[r].rating,
                            pending[r].comment, pending[r].createdAt)
    IN  /\ pending[r].pc = "review_save"
        /\ IF fail \/ ~ReviewValidates(review)
           THEN /\ Continues(r, [pending[r] EXCEPT !.pc = "review_saved", !.result = "err"])
                /\ UNCHANGED reviews
           ELSE /\ reviews' = reviews \cup {StoredReview(review)}
                /\ Continues(r, [pending[r] EXCEPT !.pc = "review_saved", !.result = "ok"])
        /\ UNCHANGED <<users, sessions, now>>

(* The handler resumes.                                                    *)
ReviewSaved(r) ==
    /\ pending[r].pc = "review_saved"
    /\ IF pending[r].result = "err"
       THEN Completes(r, Render("POST /reviews/new", "new", ErrReviewFailed))
       ELSE Completes(r, Redirect("POST /reviews/new", "/"))
    /\ UNCHANGED <<users, reviews, sessions, now>>

(***************************************************************************)
(* GET /reviews/:id                                                        *)
(***************************************************************************)
GetReviewDetail(c, reviewId) ==
    /\ Suspends(c, [Idle EXCEPT !.pc = "detail_find", !.param = reviewId])
    /\ UNCHANGED <<users, reviews, sessions, now>>

(* findById: the id is cast to an ObjectId, then the store looks it up.    *)
DetailFind(r, fail) ==
    /\ pending[r].pc = "detail_find"
    /\ Continues(r, [pending[r] EXCEPT
          !.pc = "detail_found",
          !.result = IF fail THEN "err"
                     ELSE IF ~IsObjectIdString(pending[r].param) THEN "cast"
                     ELSE IF {d \in reviews : d.id = CastObjectId(pending[r].param)} = {}
                     THEN "none" ELSE "found"])
    /\ UNCHANGED <<users, reviews, sessions, now>>

(* The handler resumes.                                                    *)
DetailRender(r) ==
    /\ pending[r].pc = "detail_found"
    /\ IF pending[r].result \in {"err", "cast"}
       THEN Completes(r, Send("GET /reviews/:id", MsgDetailFailed))
       ELSE IF pending[r].result = "none"
       THEN Completes(r, Send("GET /reviews/:id", MsgReviewNotFound))
       ELSE Completes(r, RenderList("GET /reviews/:id", "detail",
                                    <<CastObjectId(pending[r].param)>>))
    /\ UNCHANGED <<users, reviews, sessions, now>>

(***************************************************************************)
(* GET /logout.  The handler hands req.session.destroy a callback and      *)
(* returns.  MemoryStore.destroy removes the session at once and defers    *)
(* the callback, to which it passes no error.                              *)
(***************************************************************************)
GetLogout(c) ==
    /\ Suspends(c, [Idle EXCEPT !.pc = "logout_destroy", !.result = "ok"])
    /\ sessions' = [sessions EXCEPT ![c] = NoUser]
    /\ UNCHANGED <<users, reviews, now>>

(* a callback that takes the branch for an error *)
LogoutCallbackOnError(r) ==
    /\ pending[r].pc = "logout_destroy"
    /\ Completes(r, Redirect("GET /logout", "/"))
    /\ UNCHANGED <<users, reviews, sessions, now>>

(* The callback: on an error to /, else the connect.sid cookie is cleared  *)
(* and the client sent to /login.                                          *)
LogoutCallback(r) ==
    /\ pending[r].pc = "logout_destroy"
    /\ IF pending[r].result = "err"
       THEN /\ Completes(r, Redirect("GET /logout", "/"))
            /\ UNCHANGED sessions
       ELSE /\ sessions' = [sessions EXCEPT ![pending[r].client] = NoUser]
            /\ Completes(r, Redirect("GET /logout", "/login"))
    /\ UNCHANGED <<users, reviews, now>>

(***************************************************************************)
(* The environment: the session cookie's maxAge runs out; time passes.     *)
(***************************************************************************)
SessionExpires(c) ==
    /\ sessions[c] # NoUser
    /\ sessions' = [sessions EXCEPT ![c] = NoUser]
    /\ UNCHANGED <<users, reviews, csrf, pending, last, now>>

Tick ==
    /\ now < MaxClock
    /\ now' = now + 1
    /\ UNCHANGED <<users, reviews, sessions, csrf, pending, last>>

(***************************************************************************)
(* The requests clients C send on each group of routes, with form fields   *)
(* drawn from the given sets, and the later turns of those requests.       *)
(***************************************************************************)
SignupRequests(C, U, E, P, Q) ==
    \/ \E c \in C : GetSignup(c)
    \/ \E c \in C : \E username \in U, email \in E, password \in P,
          confirmPassword \in Q, token \in SubmittedTokens(c) :
            PostSignup(c, username, email, password, confirmPassword, token)
SignupTurns ==
    \/ \E r \in Requests, fail \in BOOLEAN : SignupFindOne(r, fail)
    \/ \E r \in Requests : SignupFound(r)
    \/ \E r \in Requests, fail \in BOOLEAN : SignupSave(r, fail)
    \/ \E r \in Requests : SignupSaved(r)

LoginRequests(C, E, Q) ==
    \/ \E c \in C : GetLogin(c)
    \/ \E c \in C : \E email \in E, password \in Q, token \in SubmittedTokens(c) :
            PostLogin(c, email, password, token)
LoginTurns ==
    \/ \E r \in Requests, fail \in BOOLEAN : LoginFindOne(r, fail)
    \/ \E r \in Requests : LoginFound(r)
    \/ \E r \in Requests, fail \in BOOLEAN : LoginCompare(r, fail)

LogoutRequests(C) ==
    \/ \E c \in C : GetLogout(c)
    \/ \E r \in Requests : LogoutCallback(r)

SubmitRequests(C, R, M) ==
    \/ \E c \in C : GetReviewsNew(c)
    \/ \E c \in C : \E rating \in R, comment \in M, token \in SubmittedTokens(c) :
            PostReviewsNew(c, rating, comment, token)
(* submissions that carry the token of the client's cookie *)
Submits(C, R, M) ==
    \E c \in C : \E rating \in R, comment \in M :
        /\ csrf[c] # 0
        /\ PostReviewsNew(c, rating, comment, csrfToken(csrf[c]))
SubmitTurns ==
    \/ \E r \in Requests, fail \in BOOLEAN : ReviewSave(r, fail)
    \/ \E r \in Requests : ReviewSaved(r)

FeedRequests(C) ==
    \/ \E c \in C : GetFeed(c)
    \/ \E r \in Requests, fail \in BOOLEAN : FeedFind(r, fail)
    \/ \E r \in Requests : FeedRender(r)
    \/ Tick

DetailRequests(C, I) ==
    \/ \E c \in C, reviewId \in I : GetReviewDetail(c, reviewId)
    \/ \E r \in Requests, fail \in BOOLEAN : DetailFind(r, fail)
    \/ \E r \in Requests : DetailRender(r)

(* The program: every route, every client.                                 *)
Next ==
    \/ SignupRequests(Clients, Usernames, Emails, Passwords, Passwords)
    \/ SignupTurns
    \/ LoginRequests(Clients, Emails, Passwords)
    \/ LoginTurns
    \/ LogoutRequests(Clients)
    \/ \E c \in Clients : SessionExpires(c)
    \/ SubmitRequests(Clients, RatingInputs, CommentInputs)
    \/ SubmitTurns
    \/ FeedRequests(Clients)
    \/ DetailRequests(Clients, IdParams)
Spec == Init /\ [][Next]_vars

(* Its behaviours are checked in parts, each a restriction of Next to some *)
(* routes, clients and form fields.                                        *)

(* The one account a browser signs up for where signing up is not what is  *)
(* looked at, with a store that answers.                                   *)
SignsUp(C) ==
    \/ \E c \in C : GetSignup(c)
    \/ \E c \in C :
          /\ csrf[c] # 0
          /\ PostSignup(c, "ann", "a@x.com", "pw1", "pw1", csrfToken(csrf[c]))
    \/ \E r \in Requests : SignupFindOne(r, FALSE)
    \/ \E r \in Requests : SignupFound(r)
    \/ \E r \in Requests : SignupSave(r, FALSE)
    \/ \E r \in Requests : SignupSaved(r)

(* Two browsers signing up and losing their sessions, with forms for       *)
(* accounts that share the username, the email, both or nothing (and forms *)
(* without an email, or whose passwords differ); concurrent signups        *)
(* included.                                                               *)
NextSignup ==
    \/ SignupRequests(Clients, {"ann"}, {"", "a@x.com"}, {"pw1"}, Filled(Passwords))
    \/ /\ csrf["c2"] # 0
       /\ PostSignup("c2", "ann", "b@x.com", "pw1", "pw1", csrfToken(csrf["c2"]))
    \/ /\ csrf["c2"] # 0
       /\ PostSignup("c2", "bob", "a@x.com", "pw1", "pw1", csrfToken(csrf["c2"]))
    \/ SignupTurns
    \/ \E c \in Clients : SessionExpires(c)
SpecSignup == Init /\ [][NextSignup]_vars

(* One browser signing up, logging in and out.                             *)
NextLogin ==
    \/ SignsUp({"c1"})
    \/ LoginRequests({"c1"}, Emails, Passwords)
    \/ LoginTurns
    \/ LogoutRequests({"c1"})
    \/ \E c \in {"c1"} : SessionExpires(c)
SpecLogin == Init /\ [][NextLogin]_vars

(* One browser signing up and submitting reviews with its token: every     *)
(* rating with a good comment, every comment with a good rating, and both  *)
(* bad.                                                                    *)
NextSubmit ==
    \/ SignsUp({"c1"})
    \/ Submits({"c1"}, RatingInputs, {<<"a">>})
    \/ Submits({"c1"}, {<<"5">>, <<"6">>}, CommentInputs \ {<<"a">>})
    \/ SubmitTurns
SpecSubmit == Init /\ [][NextSubmit]_vars

(* One browser asking for the compose form and submitting reviews before   *)
(* it signed up, while signed up, after it logged out and after its        *)
(* session ran out.                                                        *)
NextCompose ==
    \/ SignsUp({"c1"})
    \/ LogoutRequests({"c1"})
    \/ \E c \in {"c1"} : SessionExpires(c)
    \/ SubmitRequests({"c1"}, {<<"5">>, <<"6">>}, {<<"a">>})
    \/ SubmitTurns
SpecCompose == Init /\ [][NextCompose]_vars

(* One browser signing up, posting reviews and reading the feed while time *)
(* passes.                                                                 *)
NextFeed ==
    \/ SignsUp({"c1"})
    \/ Submits({"c1"}, {<<"5">>}, {<<"a">>})
    \/ SubmitTurns
    \/ FeedRequests({"c1"})
SpecFeed == Init /\ [][NextFeed]_vars

(* One browser signing up, posting reviews and asking for reviews by id.   *)
NextDetail ==
    \/ SignsUp({"c1"})
    \/ Submits({"c1"}, {<<"5">>}, {<<"a">>})
    \/ SubmitTurns
    \/ DetailRequests({"c1"}, IdParams)
SpecDetail == Init /\ [][NextDetail]_vars

(* One browser on the three routes csurf guards.                           *)
NextCsrf ==
    \/ SignsUp({"c1"})
    \/ LoginRequests({"c1"}, {"a@x.com"}, {"pw1"})
    \/ LoginTurns
    \/ SubmitRequests({"c1"}, {<<"5">>}, {<<"a">>})
    \/ SubmitTurns
SpecCsrf == Init /\ [][NextCsrf]_vars

(***************************************************************************)
(* Vocabulary of the properties, stated without the operators of the       *)
(* handlers.                                                               *)
(***************************************************************************)
(* the token is absent, or is not of the secret in client c's cookie      *)
BadToken(c, token) == token = NoToken \/ csrf[c] = 0 \/ token.mac # csrf[c]
GoodToken(c, token) == token # NoToken /\ csrf[c] # 0 /\ token.mac = csrf[c]
HasText(str) == \E i \in DOMAIN str : str[i] # " "
(* the rating inputs that stand for a number from 1 to 5 *)
RatingsInRange == {<<"1">>, <<"5">>, <<" ", "5">>, <<"1", ".", "5">>}
RatingInRange(str) == str \in RatingsInRange
ObjectIdString(id) == <<HexDigits[id + 1]>>
Position(list, id) == CHOOSE i \in DOMAIN list : list[i] = id
Identity(u) == [id |-> u.id, username |-> u.username, email |-> u.email]

(* The formulas below put the conclusion of an implication first where     *)
(* its premise enumerates form fields: P => Q is written Q \/ ~P.          *)

(* What any step that takes in a request of client c on `route` shows:     *)
(* either the response went out at once, or the request is now suspended   *)
(* at `pc`.  Each Post* action implies it; stating it first spares         *)
(* enumerating the form fields on the steps of other routes.               *)
TakesIn(c, route, pc) ==
    \/ last'.client = c /\ last'.route = route /\ pending' = pending
    \/ \E r \in Requests :
         pending[r].pc = "idle" /\ pending'[r].pc = pc /\ pending'[r].client = c
(* ... and, suspended, it holds the rating it came with. *)
Holds(c, rating) ==
    \/ pending' = pending
    \/ \E r \in Requests :
         pending[r].pc = "idle" /\ pending'[r].client = c /\ pending'[r].rating = rating
SignupStep(c, token) ==
    /\ TakesIn(c, "POST /signup", "signup_findOne")
    /\ \E username \in Usernames, email \in Emails,
          password \in Passwords, confirmPassword \in Passwords :
            PostSignup(c, username, email, password, confirmPassword, token)
LoginStep(c, token) ==
    /\ TakesIn(c, "POST /login", "login_findOne")
    /\ \E email \in Emails, password \in Passwords : PostLogin(c, email, password, token)
ReviewStep(c, token) ==
    /\ TakesIn(c, "POST /reviews/new", "review_save")
    /\ \E rating \in RatingInputs, comment \in CommentInputs :
            PostReviewsNew(c, rating, comment, token)

(* C7: a POST /signup, POST /login or POST /reviews/new whose CSRF token   *)
(* is absent or is not the token issued to that client is answered 403    *)
(* before any route handler runs: the credential store, the review store,  *)
(* the session's user and the requests in flight are as they were.         *)
CsrfRejectsBeforeHandler ==
    [][\A c \in Clients : \A token \in SubmittedTokens(c) :
          \/ /\ UNCHANGED <<users, reviews, sessions, pending>>
             /\ last'.client = c /\ last'.kind = "error" /\ last'.to = "403"
          \/ ~(BadToken(c, token)
                 /\ (SignupStep(c, token) \/ LoginStep(c, token)
                       \/ ReviewStep(c, token)))]_vars
CsrfRejectionSeen ==
    /\ last.kind = "error" /\ last.route = "POST /reviews/new"
    /\ sessions[last.client] # NoUser
    /\ csrf[last.client] # 0

(* C4: a GET /reviews/new or POST /reviews/new of a client whose session   *)
(* holds no user (never logged in, expired, logged out) never renders the *)
(* compose form, leaves the review store alone and starts no save; the    *)
(* route answers with a redirect to /login (a POST reaches the route when  *)
(* its CSRF token is the client's; C7 covers the others).                  *)
UnauthenticatedRedirected ==
    [][\A c \in Clients :
          sessions[c] = NoUser =>
            /\ GetReviewsNew(c) =>
                 /\ last' = [Redirect("GET /reviews/new", "/login") EXCEPT !.client = c]
                 /\ UNCHANGED <<reviews, pending>>
            /\ \A token \in SubmittedTokens(c) :
                 \/ /\ UNCHANGED <<reviews, pending>>
                    /\ last'.client = c /\ last'.to # "new"
                    /\ GoodToken(c, token) =>
                         last'.kind = "redirect" /\ last'.to = "/login"
                 \/ ~ReviewStep(c, token)]_vars
UnauthenticatedPostSeen ==
    /\ last.route = "POST /reviews/new" /\ last.kind = "redirect" /\ last.to = "/login"
    /\ sessions[last.client] = NoUser
    /\ users # {}

(* C3: every stored review has a rating in [1,5] and a comment with text   *)
(* left after trimming; a POST /reviews/new of a logged-in client whose    *)
(* rating or comment is not so creates no review and ends with the compose *)
(* form rendered again with an error, either at once or when the save has  *)
(* refused the document.                                                   *)
Unacceptable(rating, comment) == ~RatingInRange(rating) \/ ~HasText(comment)
ComposeFormAgain(c) ==
    /\ last'.client = c /\ last'.route = "POST /reviews/new"
    /\ last'.kind = "render" /\ last'.to = "new" /\ last'.msg # "none"
ReviewsValidated ==
    [][/\ \A d \in reviews' : d.rating \in 1..5 /\ HasText(d.comment)
       /\ \A c \in Clients : \A token \in SubmittedTokens(c) :
            (/\ sessions[c] # NoUser /\ GoodToken(c, token)
             /\ TakesIn(c, "POST /reviews/new", "review_save")) =>
              \/ /\ reviews' = reviews
                 /\ \/ ComposeFormAgain(c) /\ pending' = pending
                    \/ \E r \in Requests :
                         /\ pending[r].pc = "idle" /\ pending'[r].pc = "review_save"
                         /\ Unacceptable(pending'[r].rating, pending'[r].comment)
              \/ ~\E rating \in RatingInputs, comment \in CommentInputs :
                    /\ Unacceptable(rating, comment)
                    /\ Holds(c, rating)
                    /\ PostReviewsNew(c, rating, comment, token)
       /\ \A r \in Requests, fail \in BOOLEAN :
            (/\ pending[r].pc = "review_save" /\ pending'[r].pc # "review_save"
             /\ Unacceptable(pending[r].rating, pending[r].comment)
             /\ ReviewSave(r, fail)) =>
              /\ reviews' = reviews
              /\ pending'[r].pc = "review_saved" /\ pending'[r].result = "err"
       /\ \A r \in Requests :
            (/\ pending[r].pc = "review_saved" /\ pending[r].result = "err"
             /\ ReviewSaved(r)) =>
              /\ reviews' = reviews
              /\ ComposeFormAgain(pending[r].client)]_vars
RatingRejectedSeen ==
    /\ last.route = "POST /reviews/new" /\ last.msg = ErrRatingRange
    /\ sessions[last.client] # NoUser
    /\ reviews # {}

(* C9: the list GET / renders is the one the store gave for the query: it  *)
(* holds every review stored when the query ran, once, and of any two      *)
(* reviews in it the one created later (a later createdAt) comes first.    *)
FeedNewestFirst ==
    [][\A r \in Requests :
          /\ (pending[r].pc = "feed_find" /\ FeedFind(r, FALSE)) =>
               /\ Len(pending'[r].list) = Cardinality(reviews)
               /\ \A d \in reviews : \E i \in DOMAIN pending'[r].list :
                    pending'[r].list[i] = d.id
          /\ (pending[r].pc = "feed_found" /\ pending[r].result = "ok" /\ FeedRender(r)) =>
               /\ last' = [RenderList("GET /", "index", pending[r].list)
                             EXCEPT !.client = pending[r].client]
               /\ \A a, b \in reviews :
                    (/\ a.createdAt > b.createdAt
                     /\ \E i \in DOMAIN last'.list : last'.list[i] = a.id
                     /\ \E i \in DOMAIN last'.list : last'.list[i] = b.id) =>
                      Position(last'.list, a.id) < Position(last'.list, b.id)]_vars
FeedOfTwoSeen ==
    /\ last.route = "GET /" /\ last.kind = "render" /\ Len(last.list) = 2
    /\ \E a, b \in reviews :
         /\ a.createdAt > b.createdAt
         /\ last.list = <<a.id, b.id>>

(* C10 as claimed: a GET /reviews/:id whose id is the id of no stored     *)
(* review is answered with the not-found message (here even granted that   *)
(* the store did not fail), and changes nothing.                           *)
UnknownIdNotFound ==
    [][\A r \in Requests :
          (/\ pending[r].pc = "detail_found" /\ pending[r].result # "err"
           /\ \A d \in reviews : ObjectIdString(d.id) # pending[r].param
           /\ DetailRender(r)) =>
            /\ last'.kind = "send" /\ last'.msg = MsgReviewNotFound
            /\ UNCHANGED <<users, reviews, sessions>>]_vars

(* C5: every GET /logout ends with a redirect to /login and with no       *)
(* error, whether or not the session held a user: the handler answers      *)
(* nothing itself and leaves the session without a user, the callback      *)
(* sends the redirect to /login, and no other step answers a GET /logout.  *)
(* (The session store of this program reports no error on destroy.)        *)
LogoutRedirects ==
    [][/\ \A c \in Clients :
            GetLogout(c) =>
              /\ sessions'[c] = NoUser
              /\ UNCHANGED <<users, reviews, last>>
       /\ \A r \in Requests :
            (pending[r].pc = "logout_destroy" /\ LogoutCallback(r)) =>
              /\ last' = [Redirect("GET /logout", "/login")
                            EXCEPT !.client = pending[r].client]
              /\ sessions'[pending[r].client] = NoUser
              /\ pending'[r].pc = "idle"
              /\ UNCHANGED <<users, reviews>>
       /\ (last' # last /\ last'.route = "GET /logout") =>
            \E r \in Requests : pending[r].pc = "logout_destroy" /\ pending'[r].pc = "idle"
       /\ last'.route = "GET /logout" =>
            last'.kind = "redirect" /\ last'.to = "/login"]_vars
LogoutWithoutSessionSeen ==
    /\ last.route = "GET /logout" /\ last.to = "/login"
    /\ users = {}

(* C6: a POST /login for which the lookup finds no user with the email, or *)
(* the password does not verify against the user found, renders the login *)
(* form with the one generic message in both cases; and no step of a login *)
(* that ends with the form, nor the intake of a login, touches any         *)
(* session's user.                                                         *)
LoginFailureGeneric ==
    [][/\ \A r \in Requests :
            /\ (pending[r].pc = "login_findOne" /\ LoginFindOne(r, FALSE)) =>
                 /\ pending'[r].result = "none"
                      <=> (\A u \in users : u.email # pending[r].email)
                 /\ UNCHANGED sessions
            /\ (pending[r].pc = "login_found" /\ pending[r].result = "none"
                  /\ LoginFound(r)) =>
                 /\ last' = [Render("POST /login", "login", ErrInvalidCredentials)
                               EXCEPT !.client = pending[r].client]
                 /\ UNCHANGED sessions
            /\ (/\ pending[r].pc = "login_compare"
                /\ \A u \in users :
                     u.id = pending[r].user => u.password # Hash(pending[r].password)
                /\ LoginCompare(r, FALSE)) =>
                 /\ last' = [Render("POST /login", "login", ErrInvalidCredentials)
                               EXCEPT !.client = pending[r].client]
                 /\ UNCHANGED sessions
       /\ (last' # last /\ last'.route = "POST /login" /\ last'.kind # "redirect") =>
            UNCHANGED sessions
       /\ \A c \in Clients : \A token \in SubmittedTokens(c) :
            UNCHANGED sessions \/ ~LoginStep(c, token)]_vars
LoginFailureSeen ==
    /\ last.route = "POST /login" /\ last.msg = ErrInvalidCredentials
    /\ users # {}
    /\ sessions[last.client] # NoUser

(* C8: a session's user is always the id, username and email of a stored  *)
(* user; it becomes a user only in the step that completes a POST /signup  *)
(* or POST /login of that client with the redirect to /; and a logout that *)
(* leaves it without a user, from the turn of its handler on.              *)
SessionLifecycle ==
    [][\A c \in Clients :
          /\ sessions'[c] # NoUser => \E u \in users' : sessions'[c] = Identity(u)
          /\ (sessions'[c] # sessions[c] /\ sessions'[c] # NoUser) =>
               /\ \E r \in Requests :
                    /\ pending[r].client = c
                    /\ pending[r].pc \in {"signup_saved", "login_compare"}
                    /\ pending'[r].pc = "idle"
               /\ last'.client = c /\ last'.route \in {"POST /signup", "POST /login"}
               /\ last'.kind = "redirect" /\ last'.to = "/"
          /\ GetLogout(c) => sessions'[c] = NoUser
          /\ \A r \in Requests :
               (/\ pending[r].pc = "logout_destroy" /\ pending[r].client = c
                /\ LogoutCallback(r)) =>
                 sessions'[c] = NoUser]_vars
LoggedOutAgainSeen ==
    /\ users # {}
    /\ last.route = "GET /logout" /\ last.to = "/login"
    /\ sessions[last.client] = NoUser

(* C1: a POST /signup whose email or username is that of a stored user     *)
(* creates no user and changes none.  Stored users stay as they are (so a  *)
(* name taken when the request arrives is taken when its lookup runs), and *)
(* a user is added only by the step in which the store runs a save.  The   *)
(* lookup of a signup whose email or username is taken finds the user; the *)
(* handler then ends the request with the signup form and the user-exists  *)
(* error, and only a request whose lookup found none calls save.           *)
Taken(username, email) == \E u \in users : u.username = username \/ u.email = email
SignupFormAgain(c) ==
    /\ last'.client = c /\ last'.route = "POST /signup"
    /\ last'.kind = "render" /\ last'.to = "signup" /\ last'.msg # "none"
DuplicateSignupRejected ==
    [][/\ \A u \in users : u \in users'
       /\ users' # users =>
            \E r \in Requests :
              pending[r].pc = "signup_save" /\ pending'[r].pc = "signup_saved"
       /\ \A r \in Requests :
            (/\ pending[r].pc = "signup_findOne"
             /\ Taken(pending[r].username, pending[r].email)
             /\ SignupFindOne(r, FALSE)) =>
              /\ pending'[r].pc = "signup_found" /\ pending'[r].result = "found"
              /\ UNCHANGED <<users, sessions, last>>
       /\ \A r \in Requests :
            (pending[r].pc = "signup_found" /\ pending[r].result = "found"
               /\ SignupFound(r)) =>
              /\ UNCHANGED <<users, sessions>>
              /\ pending'[r].pc = "idle"
              /\ SignupFormAgain(pending[r].client)
              /\ last'.msg = ErrUserExists
       /\ \A r \in Requests :
            (pending[r].pc # "signup_save" /\ pending'[r].pc = "signup_save") =>
              pending[r].pc = "signup_found" /\ pending[r].result = "none"]_vars
DuplicateSignupSeen ==
    /\ last.route = "POST /signup" /\ last.msg = ErrUserExists
    /\ \E u \in users : sessions[last.client] # NoUser /\ u.id # sessions[last.client].id

(* C2: no two stored users share a username or an email; of two signups    *)
(* in flight for the same email or username, the one whose save the store  *)
(* runs first (the store not failing) creates the user, and the save of    *)
(* the other then creates nothing; and a signup gets its session and the   *)
(* redirect to / exactly when its save created the user, else the form.    *)
Rivals(r, q) ==
    /\ r # q
    /\ pending[r].pc = "signup_save"
    /\ pending[q].pc \in {"signup_findOne", "signup_found", "signup_save"}
    /\ pending[r].username = pending[q].username \/ pending[r].email = pending[q].email
OneSignupWins ==
    [][/\ \A u, v \in users' : u # v => u.username # v.username /\ u.email # v.email
       /\ \A r, q \in Requests :
            (/\ Rivals(r, q)
             /\ ~Taken(pending[r].username, pending[r].email)
             /\ SignupSave(r, FALSE)) =>
              /\ Cardinality(users') = Cardinality(users) + 1
              /\ \E u \in users' \ users :
                   /\ u.id = pending[r].id
                   /\ u.username = pending[r].username /\ u.email = pending[r].email
              /\ pending'[r].pc = "signup_saved" /\ pending'[r].result = "ok"
              /\ pending'[q] = pending[q] /\ UNCHANGED sessions
       /\ \A q \in Requests, fail \in BOOLEAN :
            (/\ pending[q].pc = "signup_save"
             /\ Taken(pending[q].username, pending[q].email)
             /\ SignupSave(q, fail)) =>
              /\ UNCHANGED <<users, sessions>>
              /\ pending'[q].pc = "signup_saved" /\ pending'[q].result = "err"
       /\ \A r \in Requests :
            (pending[r].pc = "signup_saved" /\ SignupSaved(r)) =>
              /\ UNCHANGED users
              /\ pending'[r].pc = "idle"
              /\ IF pending[r].result = "ok"
                 THEN /\ \E u \in users :
                           /\ u.id = pending[r].id
                           /\ sessions'[pending[r].client] = Identity(u)
                      /\ last' = [Redirect("POST /signup", "/")
                                    EXCEPT !.client = pending[r].client]
                 ELSE /\ UNCHANGED sessions
                      /\ SignupFormAgain(pending[r].client)]_vars
RaceDecidedSeen ==
    \E r \in Requests, c \in Clients :
      /\ pending[r].pc = "signup_saved" /\ pending[r].result = "err"
      /\ pending[r].client # c
      /\ sessions[c] # NoUser
      /\ sessions[pending[r].client] = NoUser
      /\ last = [Redirect("POST /signup", "/") EXCEPT !.client = c]
      /\ \E u \in users :
           /\ u.id = sessions[c].id
           /\ u.username = pending[r].username \/ u.email = pending[r].email

====
